---- MODULE Spec2Model ----
(***************************************************************************)
(* Model of src/composed/signed_key/shared.rs: SignedKeyDetails (the       *)
(* signed part of an OpenPGP certificate) and the PublicOrSecret variant.  *)
(*                                                                         *)
(* Option<T> is modelled as a sequence of length at most one: None is <<>> *)
(* and Some(x) is <<x>>.  Result<()> is "Ok" or "Err".  Vec<T> is a        *)
(* sequence.                                                               *)
(***************************************************************************)
EXTENDS Integers, Sequences, FiniteSets, TLC

VARIABLES input, details, ret, sink, pos

vars == <<input, details, ret, sink, pos>>

(***************************************************************************)
(* Bounds of the model.                                                    *)
(***************************************************************************)
MaxUsers == 2
MaxAttrs == 1
MaxSigs == 2
MaxKeySigs == 1
MaxTotalSigs == 4
MaxRichSigs == 3
MaxExp == 3

(***************************************************************************)
(* Generic helpers.                                                        *)
(***************************************************************************)
None == << >>
Some(x) == <<x>>

SeqsUpTo(S, n) == UNION {[1..k -> S] : k \in 0..n}

RECURSIVE SumSeq(_)
SumSeq(s) == IF s = << >> THEN 0 ELSE Head(s) + SumSeq(Tail(s))

RECURSIVE Concat(_)
Concat(ss) == IF ss = << >> THEN << >> ELSE Head(ss) \o Concat(Tail(ss))

IsPrefix(p, s) == Len(p) <= Len(s) /\ SubSeq(s, 1, Len(p)) = p

(***************************************************************************)
(* packet::Signature, as far as this file reads it.  The fields are the    *)
(* results of the accessors the code calls: verify_key / verify (valid),   *)
(* key_expiration_time (exp), is_primary (primary), key_flags,             *)
(* preferred_*_algs and revocation_key.                                    *)
(***************************************************************************)
ProfileA == [keyflags |-> {"certify", "sign"},
             sym |-> <<"AES256", "AES128">>,
             hash |-> <<"SHA512">>,
             comp |-> <<"ZLIB">>,
             aead |-> <<"OCB">>,
             revkey |-> Some("RK")]

ProfileB == [keyflags |-> {"encrypt_comms"},
             sym |-> <<"AES128">>,
             hash |-> <<"SHA256", "SHA512">>,
             comp |-> <<"ZIP", "ZLIB">>,
             aead |-> <<"GCM", "EAX">>,
             revkey |-> None]

Profiles == {ProfileA, ProfileB}

Sig(valid, exp, primary, p) ==
    [valid |-> valid, exp |-> exp, primary |-> primary,
     keyflags |-> p.keyflags, sym |-> p.sym, hash |-> p.hash,
     comp |-> p.comp, aead |-> p.aead, revkey |-> p.revkey]

\* Signatures that differ in whether they verify against the key.
VerifySigs == {Sig(v, None, FALSE, ProfileA) : v \in BOOLEAN}

\* Signatures that differ in the key expiration offset they declare.
ExpirySigs == {Sig(TRUE, e, FALSE, ProfileA) : e \in {None} \cup {Some(n) : n \in 1..MaxExp}}

\* Signatures that differ in the primary flag and in the metadata.
MetaSigs == {Sig(TRUE, None, pr, p) : pr \in BOOLEAN, p \in Profiles}

\* Signatures that differ in content only (what a sink can tell apart).
WriteSigs == {Sig(TRUE, None, FALSE, p) : p \in Profiles}

(***************************************************************************)
(* The arguments of SignedKeyDetails::new.  A shape gives the number of    *)
(* signatures of every list; the signatures themselves are drawn from a    *)
(* set F.  User i carries the id i and attribute i the value i, so that    *)
(* entries can be told apart.  Entries with no signature are included.     *)
(* A bundle holds at most MaxTotalSigs signatures, and at most MaxRichSigs *)
(* where the signatures are drawn from a set of more than two.             *)
(***************************************************************************)
ShapeTotal(s) == s.nrev + s.ndir + SumSeq(s.users) + SumSeq(s.attrs)

Shapes ==
    {s \in [nrev : 0..MaxKeySigs, ndir : 0..MaxKeySigs,
            users : SeqsUpTo(0..MaxSigs, MaxUsers),
            attrs : SeqsUpTo(0..MaxSigs, MaxAttrs)] :
        ShapeTotal(s) <= MaxTotalSigs}

Chunk(flat, off, n) == SubSeq(flat, off + 1, off + n)

Build(s, flat) ==
    LET offU(i) == s.nrev + s.ndir + SumSeq(SubSeq(s.users, 1, i - 1))
        offA(i) == s.nrev + s.ndir + SumSeq(s.users) + SumSeq(SubSeq(s.attrs, 1, i - 1))
    IN  [revocation_signatures |-> Chunk(flat, 0, s.nrev),
         direct_signatures |-> Chunk(flat, s.nrev, s.ndir),
         users |-> [i \in 1..Len(s.users) |->
                       [id |-> i, signatures |-> Chunk(flat, offU(i), s.users[i])]],
         user_attributes |-> [i \in 1..Len(s.attrs) |->
                       [attr |-> i, signatures |-> Chunk(flat, offA(i), s.attrs[i])]]]

(***************************************************************************)
(* State that no operation has produced yet.                               *)
(***************************************************************************)
NotBuilt == [state |-> "NotBuilt"]
NoRet == [op |-> "none", val |-> "none"]

(***************************************************************************)
(* Vec::retain with the closure of new: keeps, in order, the entries whose *)
(* signatures are not empty.                                               *)
(***************************************************************************)
retain(v) ==
    LET kept[i \in 0..Len(v)] ==
            IF i = 0 THEN << >>
            ELSE IF v[i].signatures = << >> THEN kept[i - 1]
            ELSE Append(kept[i - 1], v[i])
    IN  kept[Len(v)]

\* Mutant: the user attributes are not filtered.
new_attributes_unfiltered(revocation_signatures, direct_signatures, users, user_attributes) ==
    [revocation_signatures |-> revocation_signatures,
     direct_signatures |-> direct_signatures,
     users |-> retain(users),
     user_attributes |-> user_attributes]

\* Mutant: the users are not filtered.
new_users_unfiltered(revocation_signatures, direct_signatures, users, user_attributes) ==
    [revocation_signatures |-> revocation_signatures,
     direct_signatures |-> direct_signatures,
     users |-> users,
     user_attributes |-> retain(user_attributes)]

\* SignedKeyDetails::new
new(revocation_signatures, direct_signatures, users, user_attributes) ==
    [revocation_signatures |-> revocation_signatures,
     direct_signatures |-> direct_signatures,
     users |-> retain(users),
     user_attributes |-> retain(user_attributes)]

New ==
    /\ details = NotBuilt
    /\ details' = new(input.revocation_signatures, input.direct_signatures,
                      input.users, input.user_attributes)
    /\ UNCHANGED <<input, ret, sink, pos>>

(***************************************************************************)
(* verify.  The per-signature check is the external primitive; the model   *)
(* keeps, next to the Result, the log of the signature checks that were    *)
(* made, in the order they were made.  A log entry names the group, the    *)
(* entry of the group and the signature of the entry.                      *)
(***************************************************************************)
Check(grp, item, k) == [grp |-> grp, item |-> item, sig |-> k]

\* Signature::verify_key / verify_certification: the external primitive.
verify_key(sig) == IF sig.valid THEN "Ok" ELSE "Err"

\* A loop `for sig in sigs { check(sig)?; }` started with the log `log`.
verify_sigs(sigs, grp, item, log) ==
    LET run[k \in 0..Len(sigs)] ==
            IF k = 0 THEN [res |-> "Ok", log |-> log]
            ELSE LET prev == run[k - 1]
                 IN  IF prev.res = "Err" THEN prev
                     ELSE [res |-> verify_key(sigs[k]),
                           log |-> Append(prev.log, Check(grp, item, k))]
    IN  run[Len(sigs)]

\* SignedUser::verify: every signature of the user, in order.
SignedUser_verify(user, item, log) == verify_sigs(user.signatures, "user", item, log)

\* SignedUserAttribute::verify: every signature of the attribute, in order.
SignedUserAttribute_verify(attr, item, log) == verify_sigs(attr.signatures, "attr", item, log)

verify_users(self, log) ==
    LET run[i \in 0..Len(self.users)] ==
            IF i = 0 THEN [res |-> "Ok", log |-> log]
            ELSE LET prev == run[i - 1]
                 IN  IF prev.res = "Err" THEN prev
                     ELSE SignedUser_verify(self.users[i], i, prev.log)
    IN  run[Len(self.users)]

verify_attributes(self, log) ==
    LET run[i \in 0..Len(self.user_attributes)] ==
            IF i = 0 THEN [res |-> "Ok", log |-> log]
            ELSE LET prev == run[i - 1]
                 IN  IF prev.res = "Err" THEN prev
                     ELSE SignedUserAttribute_verify(self.user_attributes[i], i, prev.log)
    IN  run[Len(self.user_attributes)]

verify_revocation_signatures(self, log) ==
    verify_sigs(self.revocation_signatures, "revocation", 0, log)

verify_direct_signatures(self, log) ==
    verify_sigs(self.direct_signatures, "direct", 0, log)

\* Mutant: the direct signatures are not checked.
verify_without_direct(self) ==
    LET r1 == verify_users(self, << >>) IN
    IF r1.res = "Err" THEN r1 ELSE
    LET r2 == verify_attributes(self, r1.log) IN
    IF r2.res = "Err" THEN r2 ELSE
    verify_revocation_signatures(self, r2.log)

\* Mutant: the revocation signatures are checked first.
verify_revocations_first(self) ==
    LET r1 == verify_revocation_signatures(self, << >>) IN
    IF r1.res = "Err" THEN r1 ELSE
    LET r2 == verify_users(self, r1.log) IN
    IF r2.res = "Err" THEN r2 ELSE
    LET r3 == verify_attributes(self, r2.log) IN
    IF r3.res = "Err" THEN r3 ELSE
    verify_direct_signatures(self, r3.log)

\* SignedKeyDetails::verify
verify(self) ==
    LET r1 == verify_users(self, << >>) IN
    IF r1.res = "Err" THEN r1 ELSE
    LET r2 == verify_attributes(self, r1.log) IN
    IF r2.res = "Err" THEN r2 ELSE
    LET r3 == verify_revocation_signatures(self, r2.log) IN
    IF r3.res = "Err" THEN r3 ELSE
    verify_direct_signatures(self, r3.log)

Verify ==
    /\ details # NotBuilt
    /\ ret' = [op |-> "verify", val |-> verify(details)]
    /\ UNCHANGED <<input, details, sink, pos>>

InitWith(F, total) ==
    /\ \E s \in {s \in Shapes : ShapeTotal(s) <= total} :
           \E flat \in [1..ShapeTotal(s) -> F] : input = Build(s, flat)
    /\ details = NotBuilt
    /\ ret = NoRet
    /\ sink = << >>
    /\ pos = NotBuilt

InitVerify == InitWith(VerifySigs, MaxTotalSigs)

NextVerify == New \/ Verify

SpecVerify == InitVerify /\ [][NextVerify]_vars

(***************************************************************************)
(* Properties of verify.                                                   *)
(***************************************************************************)
\* Every signature check a bundle calls for, in the order users, user
\* attributes, revocation signatures, direct signatures.
SigChecks(sigs, grp, item) == [k \in 1..Len(sigs) |-> Check(grp, item, k)]

AllChecks(d) ==
    Concat([i \in 1..Len(d.users) |-> SigChecks(d.users[i].signatures, "user", i)])
    \o Concat([i \in 1..Len(d.user_attributes) |->
                  SigChecks(d.user_attributes[i].signatures, "attr", i)])
    \o SigChecks(d.revocation_signatures, "revocation", 0)
    \o SigChecks(d.direct_signatures, "direct", 0)

CheckSet(d) == {AllChecks(d)[n] : n \in 1..Len(AllChecks(d))}

SigAt(d, c) ==
    CASE c.grp = "user" -> d.users[c.item].signatures[c.sig]
      [] c.grp = "attr" -> d.user_attributes[c.item].signatures[c.sig]
      [] c.grp = "revocation" -> d.revocation_signatures[c.sig]
      [] c.grp = "direct" -> d.direct_signatures[c.sig]

\* The bundle d with the signature at c made invalid.
Invalidate(d, c) ==
    CASE c.grp = "user" ->
             [d EXCEPT !.users[c.item].signatures[c.sig].valid = FALSE]
      [] c.grp = "attr" ->
             [d EXCEPT !.user_attributes[c.item].signatures[c.sig].valid = FALSE]
      [] c.grp = "revocation" ->
             [d EXCEPT !.revocation_signatures[c.sig].valid = FALSE]
      [] c.grp = "direct" ->
             [d EXCEPT !.direct_signatures[c.sig].valid = FALSE]

\* C1: verify(key) succeeds if and only if every signature of every retained
\* user, of every retained user attribute, every revocation signature and
\* every direct signature verifies; and the bundle with any single one of
\* these signatures made invalid fails verify.
C1_VerifyIffAllValid ==
    ret.op = "verify" =>
        /\ (ret.val.res = "Ok") = (\A c \in CheckSet(details) : SigAt(details, c).valid)
        /\ \A c \in CheckSet(details) : verify(Invalidate(details, c)).res = "Err"

\* A successful verify of a bundle with a signature in each of the four groups.
C1_Witness ==
    /\ ret.op = "verify"
    /\ ret.val.res = "Ok"
    /\ details.users # << >>
    /\ details.user_attributes # << >>
    /\ details.revocation_signatures # << >>
    /\ details.direct_signatures # << >>

\* C6: verify makes its checks in the order users (in list order), user
\* attributes, revocation signatures, direct signatures; it returns the
\* failure of the first check that fails in that order, and makes no check
\* after it.
C6_VerifyOrderFailFast ==
    ret.op = "verify" =>
        LET log == ret.val.log
            all == AllChecks(details)
        IN  /\ IsPrefix(log, all)
            /\ \A n \in 1..(Len(log) - 1) : SigAt(details, log[n]).valid
            /\ ret.val.res = "Ok" =>
                   /\ log = all
                   /\ \A n \in 1..Len(log) : SigAt(details, log[n]).valid
            /\ ret.val.res = "Err" =>
                   /\ log # << >>
                   /\ ~SigAt(details, log[Len(log)]).valid

\* A verify that fails at its second check or later and leaves checks unmade.
C6_Witness ==
    /\ ret.op = "verify"
    /\ ret.val.res = "Err"
    /\ Len(ret.val.log) >= 2
    /\ Len(ret.val.log) < Len(AllChecks(details))
    /\ ret.val.log[Len(ret.val.log)].grp = "attr"

(***************************************************************************)
(* key_expiration_time                                                     *)
(***************************************************************************)
\* .iter().flat_map(|user| &user.signatures)
flat_map_signatures(users) == Concat([i \in 1..Len(users) |-> users[i].signatures])

\* .filter_map(|sig| sig.key_expiration_time())
filter_map_key_expiration_time(sigs) ==
    LET out[k \in 0..Len(sigs)] ==
            IF k = 0 THEN << >>
            ELSE IF sigs[k].exp = None THEN out[k - 1]
            ELSE Append(out[k - 1], sigs[k].exp[1])
    IN  out[Len(sigs)]

\* Iterator::max: None for an empty iterator, else the greatest element.
iter_max(xs) ==
    LET best[k \in 1..Len(xs)] ==
            IF k = 1 THEN xs[1]
            ELSE IF xs[k] >= best[k - 1] THEN xs[k] ELSE best[k - 1]
    IN  IF xs = << >> THEN None ELSE Some(best[Len(xs)])

\* Mutant: the direct signatures are scanned too.
key_expiration_time_with_direct(self) ==
    iter_max(filter_map_key_expiration_time(
                 flat_map_signatures(self.users) \o self.direct_signatures))

\* SignedKeyDetails::key_expiration_time
key_expiration_time(self) ==
    iter_max(filter_map_key_expiration_time(flat_map_signatures(self.users)))

KeyExpirationTime ==
    /\ details # NotBuilt
    /\ ret' = [op |-> "key_expiration_time", val |-> key_expiration_time(details)]
    /\ UNCHANGED <<input, details, sink, pos>>

InitExpiry == InitWith(ExpirySigs, MaxRichSigs)

NextExpiry == New \/ KeyExpirationTime

SpecExpiry == InitExpiry /\ [][NextExpiry]_vars

\* The offsets declared by the signatures of the retained users.
UserOffsets(d) ==
    {d.users[i].signatures[k].exp[1] :
        <<i, k>> \in {<<i, k>> \in (1..Len(d.users)) \X (1..MaxTotalSigs) :
                         /\ k <= Len(d.users[i].signatures)
                         /\ d.users[i].signatures[k].exp # None}}

\* The offsets declared by the other signatures of the bundle.
OtherOffsets(d) ==
    {s.exp[1] : s \in {s \in {SigAt(d, c) : c \in {c \in CheckSet(d) : c.grp # "user"}} :
                          s.exp # None}}

\* C5: key_expiration_time() is the maximum key expiration offset declared
\* by a signature of a retained user, and None exactly when no signature of a
\* retained user declares one; the signatures of user attributes, the direct
\* signatures and the revocation signatures do not influence it.
C5_ExpirationIsMaxOverUsers ==
    ret.op = "key_expiration_time" =>
        /\ (ret.val = None) = (UserOffsets(details) = {})
        /\ ret.val # None =>
               /\ ret.val[1] \in UserOffsets(details)
               /\ \A x \in UserOffsets(details) : x <= ret.val[1]

\* The maximum of two different user offsets, with a greater offset declared
\* by a signature that is not a user's.
C5_Witness ==
    /\ ret.op = "key_expiration_time"
    /\ ret.val # None
    /\ Cardinality(UserOffsets(details)) >= 2
    /\ \E x \in OtherOffsets(details) : x > ret.val[1]

\* No expiration although signatures other than the users' declare one.
C5_WitnessNone ==
    /\ ret.op = "key_expiration_time"
    /\ ret.val = None
    /\ details.users # << >>
    /\ OtherOffsets(details) # {}

(***************************************************************************)
(* as_unsigned                                                             *)
(***************************************************************************)
\* SignedUser::is_primary: a user is flagged primary by its signatures.
is_primary(u) == \E k \in 1..Len(u.signatures) : u.signatures[k].primary

\* .iter().find(|u| u.is_primary()): the first user flagged primary.
find_primary(v) ==
    LET hit[i \in 0..Len(v)] ==
            IF i = 0 THEN None
            ELSE IF hit[i - 1] # None THEN hit[i - 1]
            ELSE IF is_primary(v[i]) THEN Some(v[i]) ELSE None
    IN  hit[Len(v)]

\* slice::first
first(v) == IF v = << >> THEN None ELSE Some(v[1])

\* KeyFlags::default()
KeyFlags_default == {}

\* KeyDetails::new_direct
new_direct(ids, attrs, keyflags, sym, hash, comp, aead, revocation_key) ==
    [panic |-> FALSE,
     users |-> ids,
     user_attributes |-> attrs,
     keyflags |-> keyflags,
     preferred_symmetric_algorithms |-> sym,
     preferred_hash_algorithms |-> hash,
     preferred_compression_algorithms |-> comp,
     preferred_aead_algorithms |-> aead,
     revocation_key |-> revocation_key]

\* A panic with its message.
Panic(msg) == [panic |-> TRUE, msg |-> msg]

\* The two branches of as_unsigned, given the Option of the primary user.
as_unsigned_of(self, primary_user) ==
    LET ids == [i \in 1..Len(self.users) |-> self.users[i].id]
        attrs == [i \in 1..Len(self.user_attributes) |-> self.user_attributes[i].attr]
    IN  IF primary_user # None
        THEN LET first_sig == first(primary_user[1].signatures)
             IN  IF first_sig = None THEN Panic("invalid primary user")
                 ELSE LET primary_sig == first_sig[1]
                      IN  new_direct(ids, attrs,
                                     primary_sig.keyflags,
                                     primary_sig.sym,
                                     primary_sig.hash,
                                     primary_sig.comp,
                                     primary_sig.aead,
                                     primary_sig.revkey)
        ELSE new_direct(ids, attrs, KeyFlags_default,
                        << >>, << >>, << >>, << >>, None)

\* Mutant: the primary flag is ignored, the first user is always taken.
as_unsigned_first_user(self) == as_unsigned_of(self, first(self.users))

\* Mutant: only the primary user's id is reported.
as_unsigned_primary_id_only(self) ==
    LET found == find_primary(self.users)
        primary_user == IF found = None THEN first(self.users) ELSE found
        out == as_unsigned_of(self, primary_user)
    IN  IF primary_user = None \/ out.panic THEN out
        ELSE [out EXCEPT !.users = <<primary_user[1].id>>]

\* SignedKeyDetails::as_unsigned
as_unsigned(self) ==
    LET found == find_primary(self.users)
        primary_user == IF found = None THEN first(self.users) ELSE found
    IN  as_unsigned_of(self, primary_user)

AsUnsigned ==
    /\ details # NotBuilt
    /\ ret' = [op |-> "as_unsigned", val |-> as_unsigned(details)]
    /\ UNCHANGED <<input, details, sink, pos>>

InitUnsigned == InitWith(MetaSigs, MaxRichSigs)

NextUnsigned == New \/ AsUnsigned

SpecUnsigned == InitUnsigned /\ [][NextUnsigned]_vars

(***************************************************************************)
(* Properties of new and as_unsigned.                                      *)
(***************************************************************************)
Signed(entries) == SelectSeq(entries, LAMBDA e : Len(e.signatures) > 0)

\* C2: new returns a value whose users are exactly the input users with a
\* non-empty signature sequence, in input order, and whose user attributes
\* are exactly the input attributes with a non-empty signature sequence, in
\* input order; every retained user and attribute has at least one
\* signature, and construction never fails.
C2_NewRetainsSigned ==
    /\ details = NotBuilt => ENABLED New
    /\ details # NotBuilt =>
           /\ details.users = Signed(input.users)
           /\ details.user_attributes = Signed(input.user_attributes)
           /\ \A i \in 1..Len(details.users) : Len(details.users[i].signatures) >= 1
           /\ \A i \in 1..Len(details.user_attributes) :
                  Len(details.user_attributes[i].signatures) >= 1

\* Users [A (signed), B (unsigned)] and an unsigned attribute: A alone is kept.
C2_Witness ==
    /\ details # NotBuilt
    /\ Len(input.users) = 2
    /\ input.users[1].signatures # << >>
    /\ input.users[2].signatures = << >>
    /\ details.users = <<input.users[1]>>
    /\ Len(input.user_attributes) = 1
    /\ details.user_attributes = << >>

\* The index of the primary user of a non-empty user list: the first user
\* flagged primary, or the first user when none is flagged.
PrimaryIndex(users) ==
    LET flagged == {i \in 1..Len(users) : is_primary(users[i])}
    IN  IF flagged = {} THEN 1
        ELSE CHOOSE i \in flagged : \A j \in flagged : i <= j

\* C3: as_unsigned takes the capability flags, the four preference lists and
\* the revocation key from the first signature of the primary user only (the
\* first retained user flagged primary, or the first retained user when none
\* is flagged); with no retained user the flags are the default flags, the
\* preference lists are empty and there is no revocation key.
C3_MetadataFromPrimaryFirstSig ==
    (ret.op = "as_unsigned" /\ ~ret.val.panic) =>
        IF details.users = << >>
        THEN /\ ret.val.keyflags = {}
             /\ ret.val.preferred_symmetric_algorithms = << >>
             /\ ret.val.preferred_hash_algorithms = << >>
             /\ ret.val.preferred_compression_algorithms = << >>
             /\ ret.val.preferred_aead_algorithms = << >>
             /\ ret.val.revocation_key = None
        ELSE LET s == details.users[PrimaryIndex(details.users)].signatures[1]
             IN  /\ ret.val.keyflags = s.keyflags
                 /\ ret.val.preferred_symmetric_algorithms = s.sym
                 /\ ret.val.preferred_hash_algorithms = s.hash
                 /\ ret.val.preferred_compression_algorithms = s.comp
                 /\ ret.val.preferred_aead_algorithms = s.aead
                 /\ ret.val.revocation_key = s.revkey

\* The second user is the primary one, flagged by its second signature, and
\* its first signature differs in metadata from its second signature and
\* from the first user's first signature.
C3_Witness ==
    /\ ret.op = "as_unsigned"
    /\ Len(details.users) = 2
    /\ ~is_primary(details.users[1])
    /\ Len(details.users[2].signatures) = 2
    /\ ~details.users[2].signatures[1].primary
    /\ details.users[2].signatures[2].primary
    /\ details.users[2].signatures[1].keyflags # details.users[2].signatures[2].keyflags
    /\ details.users[2].signatures[1].keyflags # details.users[1].signatures[1].keyflags
    /\ ret.val.keyflags = details.users[2].signatures[1].keyflags

\* C4: the user-id list of as_unsigned is the ids of all retained users in
\* list order and its attribute list is all retained user attributes in list
\* order, whichever user is the primary one and also when no user is
\* retained.
C4_AllIdentitiesListed ==
    (ret.op = "as_unsigned" /\ ~ret.val.panic) =>
        /\ ret.val.users = [i \in 1..Len(details.users) |-> details.users[i].id]
        /\ ret.val.user_attributes =
               [i \in 1..Len(details.user_attributes) |-> details.user_attributes[i].attr]

\* No user is retained (one was dropped) and the retained attribute is listed.
C4_Witness ==
    /\ ret.op = "as_unsigned"
    /\ input.users # << >>
    /\ details.users = << >>
    /\ details.user_attributes # << >>
    /\ ret.val.users = << >>
    /\ ret.val.user_attributes = <<details.user_attributes[1].attr>>

\* Two users are retained, the second is the primary one, both are listed.
C4_WitnessPrimary ==
    /\ ret.op = "as_unsigned"
    /\ Len(details.users) = 2
    /\ PrimaryIndex(details.users) = 2
    /\ ret.val.users = <<details.users[1].id, details.users[2].id>>

\* C10: on every value produced by new, whatever the input lists,
\* as_unsigned returns a result and does not reach the "invalid primary
\* user" panic.
C10_AsUnsignedTotal ==
    /\ details # NotBuilt => ENABLED AsUnsigned
    /\ ret.op = "as_unsigned" => ~ret.val.panic

\* The first input user is unsigned, a later one is signed and flagged
\* primary, and as_unsigned returns.
C10_Witness ==
    /\ ret.op = "as_unsigned"
    /\ ~ret.val.panic
    /\ Len(input.users) = 2
    /\ input.users[1].signatures = << >>
    /\ is_primary(input.users[2])

\* No input user is signed, and as_unsigned returns the bare result.
C10_WitnessNoUsers ==
    /\ ret.op = "as_unsigned"
    /\ ~ret.val.panic
    /\ Len(input.users) = 2
    /\ details.users = << >>

(***************************************************************************)
(* Serialize for SignedKeyDetails.  A writer is the packets written so far *)
(* and the number of writes it still accepts; the write after that fails.  *)
(***************************************************************************)
SignaturePacket(sig) == [tag |-> "Signature", body |-> sig]
UserIdPacket(id) == [tag |-> "UserId", body |-> id]
UserAttributePacket(attr) == [tag |-> "UserAttribute", body |-> attr]

\* packet::write_packet on a writer in state st.
write_packet(st, pkt) ==
    IF st.w.cap = 0 THEN [res |-> "Err", w |-> st.w]
    ELSE [res |-> "Ok", w |-> [out |-> Append(st.w.out, pkt), cap |-> st.w.cap - 1]]

\* A loop `for sig in sigs { packet::write_packet(writer, sig)?; }` from st.
write_signatures(sigs, st) ==
    LET run[k \in 0..Len(sigs)] ==
            IF k = 0 THEN st
            ELSE LET prev == run[k - 1]
                 IN  IF prev.res = "Err" THEN prev
                     ELSE write_packet(prev, SignaturePacket(sigs[k]))
    IN  run[Len(sigs)]

\* SignedUser::to_writer: the identity, then its signatures.
SignedUser_to_writer(st, user) ==
    LET r == write_packet(st, UserIdPacket(user.id))
    IN  IF r.res = "Err" THEN r ELSE write_signatures(user.signatures, r)

\* SignedUserAttribute::to_writer: the attribute, then its signatures.
SignedUserAttribute_to_writer(st, attr) ==
    LET r == write_packet(st, UserAttributePacket(attr.attr))
    IN  IF r.res = "Err" THEN r ELSE write_signatures(attr.signatures, r)

\* The loop `for user in &self.users { user.to_writer(writer)?; }` from st.
write_users(users, st) ==
    LET run[k \in 0..Len(users)] ==
            IF k = 0 THEN st
            ELSE LET prev == run[k - 1]
                 IN  IF prev.res = "Err" THEN prev
                     ELSE SignedUser_to_writer(prev, users[k])
    IN  run[Len(users)]

\* The loop `for attr in &self.user_attributes { attr.to_writer(writer)?; }`.
write_attributes(attrs, st) ==
    LET run[k \in 0..Len(attrs)] ==
            IF k = 0 THEN st
            ELSE LET prev == run[k - 1]
                 IN  IF prev.res = "Err" THEN prev
                     ELSE SignedUserAttribute_to_writer(prev, attrs[k])
    IN  run[Len(attrs)]

\* Mutant: the users and attributes are written before the key's signatures.
to_writer_users_first(self, writer) ==
    LET r1 == write_users(self.users, [res |-> "Ok", w |-> writer]) IN
    IF r1.res = "Err" THEN r1 ELSE
    LET r2 == write_attributes(self.user_attributes, r1) IN
    IF r2.res = "Err" THEN r2 ELSE
    LET r3 == write_signatures(self.revocation_signatures, r2) IN
    IF r3.res = "Err" THEN r3 ELSE
    write_signatures(self.direct_signatures, r3)

\* <SignedKeyDetails as Serialize>::to_writer
to_writer(self, writer) ==
    LET r1 == write_signatures(self.revocation_signatures, [res |-> "Ok", w |-> writer]) IN
    IF r1.res = "Err" THEN r1 ELSE
    LET r2 == write_signatures(self.direct_signatures, r1) IN
    IF r2.res = "Err" THEN r2 ELSE
    LET r3 == write_users(self.users, r2) IN
    IF r3.res = "Err" THEN r3 ELSE
    write_attributes(self.user_attributes, r3)

\* The most packets a bundle of the model serializes to.
MaxPackets == MaxTotalSigs + MaxUsers + MaxAttrs

\* to_writer on an empty writer that accepts cap writes.  It reads self
\* alone and every call gets its own writer, so one call is followed.
ToWriter ==
    /\ details # NotBuilt
    /\ ret.op = "none"
    /\ \E cap \in 0..MaxPackets :
           LET r == to_writer(details, [out |-> << >>, cap |-> cap])
           IN  /\ sink' = r.w.out
               /\ ret' = [op |-> "to_writer", val |-> [res |-> r.res, cap |-> cap]]
    /\ UNCHANGED <<input, details, pos>>

InitWrite == InitWith(WriteSigs, MaxTotalSigs)

NextWrite == New \/ ToWriter

SpecWrite == InitWrite /\ [][NextWrite]_vars

\* The packets of a bundle in wire order.
SigPackets(sigs) == [k \in 1..Len(sigs) |-> SignaturePacket(sigs[k])]

WireOrder(d) ==
    SigPackets(d.revocation_signatures)
    \o SigPackets(d.direct_signatures)
    \o Concat([i \in 1..Len(d.users) |->
                  <<UserIdPacket(d.users[i].id)>> \o SigPackets(d.users[i].signatures)])
    \o Concat([i \in 1..Len(d.user_attributes) |->
                  <<UserAttributePacket(d.user_attributes[i].attr)>>
                      \o SigPackets(d.user_attributes[i].signatures)])

\* C7: when no write fails, to_writer writes all revocation signatures in
\* list order, then all direct signatures, then each retained user, then each
\* retained user attribute, each item exactly once; at the first write
\* failure the failure is returned and nothing further is written.
C7_WireOrder ==
    ret.op = "to_writer" =>
        LET full == WireOrder(details)
        IN  /\ (ret.val.res = "Ok") = (ret.val.cap >= Len(full))
            /\ ret.val.res = "Ok" => sink = full
            /\ ret.val.res = "Err" => sink = SubSeq(full, 1, ret.val.cap)

\* A complete serialization of a bundle with an item in each of the four lists.
C7_Witness ==
    /\ ret.op = "to_writer"
    /\ ret.val.res = "Ok"
    /\ details.revocation_signatures # << >>
    /\ details.direct_signatures # << >>
    /\ details.users # << >>
    /\ details.user_attributes # << >>
    /\ Len(sink) = 6

\* A serialization that fails inside the second user, after two writes of it.
C7_WitnessFailure ==
    /\ ret.op = "to_writer"
    /\ ret.val.res = "Err"
    /\ Len(details.users) = 2
    /\ Len(sink) >= 2
    /\ sink[Len(sink)].tag = "Signature"
    /\ sink[Len(sink) - 1] = UserIdPacket(details.users[2].id)
    /\ Len(sink) < Len(WireOrder(details)) - 1

(***************************************************************************)
(* PublicOrSecret.  A value is a tag with the key it owns.  The operations *)
(* of SignedPublicKey and SignedSecretKey are outside this file: the       *)
(* result of one is modelled as the record of the call (which operation,   *)
(* on which key, with which argument), and what it writes to a writer as   *)
(* that same record.                                                       *)
(***************************************************************************)
Public(k) == [tag |-> "Public", k |-> k]
Secret(k) == [tag |-> "Secret", k |-> k]

\* A PublicOrSecret that into_secret or into_public has consumed.
Moved == [state |-> "Moved"]

IsValue(p) == p # NotBuilt /\ p # Moved

ArmorOptions == {"default", "no_checksum"}

\* k.verify(), k.to_armored_*(..), k.to_writer(..) of the key of a branch.
KeyCall(name, k, arg) == [call |-> name, self |-> k, arg |-> arg]

\* PublicOrSecret::verify
pos_verify(self) ==
    IF self.tag = "Public" THEN KeyCall("SignedPublicKey::verify", self.k, "none")
    ELSE KeyCall("SignedSecretKey::verify", self.k, "none")

\* PublicOrSecret::to_armored_writer
pos_to_armored_writer(self, opts) ==
    IF self.tag = "Public" THEN KeyCall("SignedPublicKey::to_armored_writer", self.k, opts)
    ELSE KeyCall("SignedSecretKey::to_armored_writer", self.k, opts)

\* PublicOrSecret::to_armored_bytes
pos_to_armored_bytes(self, opts) ==
    IF self.tag = "Public" THEN KeyCall("SignedPublicKey::to_armored_bytes", self.k, opts)
    ELSE KeyCall("SignedSecretKey::to_armored_bytes", self.k, opts)

\* PublicOrSecret::to_armored_string
pos_to_armored_string(self, opts) ==
    IF self.tag = "Public" THEN KeyCall("SignedPublicKey::to_armored_string", self.k, opts)
    ELSE KeyCall("SignedSecretKey::to_armored_string", self.k, opts)

\* <PublicOrSecret as Serialize>::to_writer
pos_to_writer(self) ==
    IF self.tag = "Public" THEN KeyCall("SignedPublicKey::to_writer", self.k, "none")
    ELSE KeyCall("SignedSecretKey::to_writer", self.k, "none")

\* Mutant: a public key is silently converted.
into_secret_silent(self) == [panic |-> FALSE, value |-> self.k]

\* PublicOrSecret::into_secret
into_secret(self) ==
    IF self.tag = "Public" THEN Panic("Can not convert a public into a secret key")
    ELSE [panic |-> FALSE, value |-> self.k]

\* PublicOrSecret::into_public
into_public(self) ==
    IF self.tag = "Secret" THEN Panic("Can not convert a secret into a public key")
    ELSE [panic |-> FALSE, value |-> self.k]

\* Mutant: the Secret arm answers true as well.
is_public_always(self) == TRUE

\* PublicOrSecret::is_public
is_public(self) == IF self.tag = "Secret" THEN FALSE ELSE TRUE

\* PublicOrSecret::is_secret
is_secret(self) == IF self.tag = "Secret" THEN TRUE ELSE FALSE

\* A parsed certificate is wrapped as one of the two variants.
Wrap ==
    /\ details # NotBuilt
    /\ pos = NotBuilt
    /\ \/ pos' = Public([type |-> "SignedPublicKey", details |-> details])
       \/ pos' = Secret([type |-> "SignedSecretKey", details |-> details])
    /\ UNCHANGED <<input, details, ret, sink>>

PosVerify ==
    /\ IsValue(pos)
    /\ ret' = [op |-> "pos_verify", val |-> pos_verify(pos)]
    /\ UNCHANGED <<input, details, sink, pos>>

PosToArmoredWriter ==
    /\ IsValue(pos)
    /\ \E opts \in ArmorOptions :
           /\ sink' = <<pos_to_armored_writer(pos, opts)>>
           /\ ret' = [op |-> "pos_to_armored_writer", val |-> pos_to_armored_writer(pos, opts)]
    /\ UNCHANGED <<input, details, pos>>

PosToArmoredBytes ==
    /\ IsValue(pos)
    /\ \E opts \in ArmorOptions :
           ret' = [op |-> "pos_to_armored_bytes", val |-> pos_to_armored_bytes(pos, opts)]
    /\ UNCHANGED <<input, details, sink, pos>>

PosToArmoredString ==
    /\ IsValue(pos)
    /\ \E opts \in ArmorOptions :
           ret' = [op |-> "pos_to_armored_string", val |-> pos_to_armored_string(pos, opts)]
    /\ UNCHANGED <<input, details, sink, pos>>

PosToWriter ==
    /\ IsValue(pos)
    /\ sink' = <<pos_to_writer(pos)>>
    /\ ret' = [op |-> "pos_to_writer", val |-> pos_to_writer(pos)]
    /\ UNCHANGED <<input, details, pos>>

IsPublic ==
    /\ IsValue(pos)
    /\ ret' = [op |-> "is_public", val |-> is_public(pos)]
    /\ UNCHANGED <<input, details, sink, pos>>

IsSecret ==
    /\ IsValue(pos)
    /\ ret' = [op |-> "is_secret", val |-> is_secret(pos)]
    /\ UNCHANGED <<input, details, sink, pos>>

\* into_secret(self) takes the value: it is gone after the call.  The
\* return keeps the receiver next to the outcome.
IntoSecret ==
    /\ IsValue(pos)
    /\ ret' = [op |-> "into_secret", val |-> into_secret(pos), self |-> pos]
    /\ pos' = Moved
    /\ UNCHANGED <<input, details, sink>>

IntoPublic ==
    /\ IsValue(pos)
    /\ ret' = [op |-> "into_public", val |-> into_public(pos), self |-> pos]
    /\ pos' = Moved
    /\ UNCHANGED <<input, details, sink>>

InitVariant == InitWith(VerifySigs, MaxKeySigs)

NextVariant ==
    \/ New \/ Wrap
    \/ PosVerify \/ PosToArmoredWriter \/ PosToArmoredBytes \/ PosToArmoredString
    \/ PosToWriter \/ IsPublic \/ IsSecret
    \/ IntoSecret \/ IntoPublic

SpecVariant == InitVariant /\ [][NextVariant]_vars

\* C8: into_secret returns the inner key when the variant is Secret and
\* panics when it is Public; into_public returns the inner key when the
\* variant is Public and panics when it is Secret; a narrowing call returns
\* normally exactly when the matching is_secret / is_public test is true.
C8_NarrowingPanicsOnMismatch ==
    /\ ret.op = "into_secret" =>
           /\ ret.val.panic = (ret.self.tag = "Public")
           /\ (~ret.val.panic) = is_secret(ret.self)
           /\ ~ret.val.panic => ret.val.value = ret.self.k
    /\ ret.op = "into_public" =>
           /\ ret.val.panic = (ret.self.tag = "Secret")
           /\ (~ret.val.panic) = is_public(ret.self)
           /\ ~ret.val.panic => ret.val.value = ret.self.k

\* into_secret called on a Public value panics and the value is gone.
C8_Witness ==
    /\ ret.op = "into_secret"
    /\ ret.self.tag = "Public"
    /\ ret.val.panic
    /\ pos = Moved

NonConsuming ==
    {"pos_verify", "pos_to_armored_writer", "pos_to_armored_bytes",
     "pos_to_armored_string", "pos_to_writer", "is_public", "is_secret"}

\* C9: for every PublicOrSecret value exactly one of is_public() and
\* is_secret() is true, and no non-consuming operation (verify,
\* to_armored_writer, to_armored_bytes, to_armored_string, to_writer,
\* is_public, is_secret) changes which one is true.
C9_TagExclusiveAndFixed ==
    /\ [](IsValue(pos) => (is_public(pos) # is_secret(pos)))
    /\ [][(IsValue(pos) /\ ret'.op \in NonConsuming) =>
              /\ IsValue(pos')
              /\ is_public(pos') = is_public(pos)
              /\ is_secret(pos') = is_secret(pos)]_vars

\* A Secret value after a non-consuming operation: still Secret, not Public.
C9_Witness ==
    /\ IsValue(pos)
    /\ ret.op = "pos_to_armored_string"
    /\ is_secret(pos)
    /\ ~is_public(pos)

(***************************************************************************)
(* The whole program: every operation, on small bundles of every family   *)
(* of signatures.                                                          *)
(***************************************************************************)
Init ==
    \/ InitWith(VerifySigs, MaxKeySigs)
    \/ InitWith(ExpirySigs, MaxKeySigs)
    \/ InitWith(MetaSigs, MaxKeySigs)

Next ==
    \/ New \/ Verify \/ KeyExpirationTime \/ AsUnsigned \/ ToWriter
    \/ Wrap
    \/ PosVerify \/ PosToArmoredWriter \/ PosToArmoredBytes \/ PosToArmoredString
    \/ PosToWriter \/ IsPublic \/ IsSecret
    \/ IntoSecret \/ IntoPublic

Spec == Init /\ [][Next]_vars

====
